---- MODULE Spec2Model ----
(***************************************************************************)
(* A model of Arbor's download pipeline (app_packages/arbor/download.py)   *)
(* and of its log-capturing invoker (app_packages/arbor/capture_logs.py).  *)
(*                                                                         *)
(* Python values are tagged records: None, Str, Num, List, Tuple and the   *)
(* dictionaries.  A Python string is the sequence of its pieces: the       *)
(* string is the concatenation of the pieces, every delimiter the code     *)
(* looks for ("/", ":", "?", "#", "[", "]", "@", ";", " ") is a piece of   *)
(* its own, and the other pieces are runs of characters the code never     *)
(* splits ("https", "open.spotify.com", "track", "ABC123").                *)
(***************************************************************************)
EXTENDS Integers, Sequences, FiniteSets, TLC

VARIABLES
    \* ---- _spotify_track_id / the dispatch of download (lines 21-29, 263-277)
    rref,       \* the reference handed to download
    rpc,        \* "call" | "done"
    rout,       \* the outcome of the dispatch
    \* ---- the thumbnail selection of download (lines 115-175)
    tthumbs,    \* info["thumbnails"]
    tpc,        \* "call" | "done"
    tout        \* what the selection left

rvars == <<rref, rpc, rout>>
tvars == <<tthumbs, tpc, tout>>

-----------------------------------------------------------------------------
(* Python values *)

None == [t |-> "none"]
Missing == [t |-> "missing"]   \* a key a dict does not have
Str(s) == [t |-> "str", s |-> s]
Num(n) == [t |-> "int", n |-> n]
List(l) == [t |-> "list", l |-> l]
Tuple(l) == [t |-> "tuple", l |-> l]
\* A dict is a record tagged "dict" whose other fields are its keys; a key the
\* dict does not have is either no field of the record or a field set to Missing.
EmptyDict == [t |-> "dict"]
\* what a method call on a value without that method leaves (AttributeError)
Crash == [t |-> "crash"]

IsDict(v) == v.t = "dict"
IsStr(v) == v.t = "str"
IsList(v) == v.t = "list"

\* Python truthiness
Truthy(v) ==
    CASE v.t \in {"none", "missing"} -> FALSE
      [] v.t = "str" -> v.s # <<>>
      [] v.t = "int" -> v.n # 0
      [] v.t \in {"list", "tuple"} -> v.l # <<>>
      [] v.t = "dict" -> \E k \in DOMAIN v \ {"t"} : v[k] # Missing
      [] OTHER -> TRUE

\* d.get(k): None for a key d does not have; Crash when d has no method get
GetKey(d, k) ==
    IF ~IsDict(d) THEN Crash
    ELSE IF k \in DOMAIN d /\ d[k] # Missing THEN d[k] ELSE None

\* a or b
Or(a, b) == IF Truthy(a) THEN a ELSE b

\* max / min of a non-empty finite set of integers
SetMax(S) == CHOOSE m \in S : \A k \in S : k <= m
SetMin(S) == CHOOSE m \in S : \A k \in S : m <= k

\* the pieces str.strip() removes at both ends
Whitespace == {" ", "\t", "\n", "\r"}

\* 0 for the empty set, else its least / greatest element
MinOr0(S) == IF S = {} THEN 0 ELSE SetMin(S)
MaxOr0(S) == IF S = {} THEN 0 ELSE SetMax(S)

\* the pieces of s from position a to position b; <<>> when a = 0
Between(s, a, b) == IF a = 0 THEN <<>> ELSE SubSeq(s, a, b)

\* str.strip()
Strip(s) ==
    Between(s, MinOr0({i \in 1..Len(s) : s[i] \notin Whitespace}),
               MaxOr0({i \in 1..Len(s) : s[i] \notin Whitespace}))

\* index of the first piece of s that is in set D at or after position from, 0 if none
Find(s, D, from) == MinOr0({i \in from..Len(s) : s[i] \in D})

\* index of the last piece of s that is in set D, 0 if none
RFind(s, D) == MaxOr0({i \in 1..Len(s) : s[i] \in D})

\* s up to position i - 1, or all of s when i = 0 (nothing found)
Before(s, i) == IF i = 0 THEN s ELSE SubSeq(s, 1, i - 1)
\* s after position i, or nothing when i = 0
After(s, i) == IF i = 0 THEN <<>> ELSE SubSeq(s, i + 1, Len(s))

Has(s, c) == \E i \in 1..Len(s) : s[i] = c

-----------------------------------------------------------------------------
(* The pieces of references, and what Python's character tests say of them *)

\* pieces made of letters and digits only (str.isalnum() is true of them)
AlnumPieces == {"https", "http", "HTTPS", "ftp", "track", "album", "ABC123",
                "abc123", "user", "80", "q", "f", "p", "watch"}
\* pieces made of scheme characters (letters, digits, "+", "-", ".")
SchemePieces == AlnumPieces \cup
    {"open.spotify.com", "Open.Spotify.COM", "example.com", "a-b"}
\* pieces whose first character is an ASCII letter
AlphaFirstPieces == SchemePieces \ {"80"}

\* str.lower() of a piece of a reference: the pieces with an upper-case letter
\* are "HTTPS", "Open.Spotify.COM" and "ABC123"
LowerPiece(p) ==
    CASE p = "HTTPS" -> "https"
      [] p = "Open.Spotify.COM" -> "open.spotify.com"
      [] p = "ABC123" -> "abc123"
      [] OTHER -> p
Lower(s) == [i \in 1..Len(s) |-> LowerPiece(s[i])]

\* str.isalnum(): non-empty and every character alphanumeric
IsAlnum(s) == Len(s) > 0 /\ \A i \in 1..Len(s) : s[i] \in AlnumPieces

-----------------------------------------------------------------------------
(* urllib.parse.urlparse, as _spotify_track_id uses it *)

UnsafeBytes == {"\t", "\r", "\n"}
UsesParams == {<<>>, <<"ftp">>, <<"http">>, <<"https">>}

\* urlsplit's scheme step, the first ":" being at position i: [scheme, rest]
SplitSchemeAt(url, i) ==
    IF i > 1 /\ url[1] \in AlphaFirstPieces
       /\ \A k \in 1..(i - 1) : url[k] \in SchemePieces
    THEN [scheme |-> Lower(SubSeq(url, 1, i - 1)),
          rest |-> SubSeq(url, i + 1, Len(url))]
    ELSE [scheme |-> <<>>, rest |-> url]
SplitScheme(url) == SplitSchemeAt(url, Find(url, {":"}, 1))

\* urlsplit's netloc step (_splitnetloc), the netloc ending before position e:
\* [netloc, rest]
SplitNetlocAt(url, e) ==
    [netloc |-> SubSeq(url, 3, e - 1), rest |-> SubSeq(url, e, Len(url))]
SplitNetloc(url) ==
    IF Len(url) >= 2 /\ url[1] = "/" /\ url[2] = "/"
    THEN SplitNetlocAt(url, IF Find(url, {"/", "?", "#"}, 3) = 0 THEN Len(url) + 1
                            ELSE Find(url, {"/", "?", "#"}, 3))
    ELSE [netloc |-> <<>>, rest |-> url]

\* urlsplit raises ValueError("Invalid IPv6 URL") on an unbalanced bracket, and
\* (_check_bracketed_host) on a bracketed host that is no IPv6/IPvFuture literal:
\* none of the pieces of this model is one
InvalidNetloc(netloc) == Has(netloc, "[") \/ Has(netloc, "]")

\* the path: the rest up to "#" or "?", and for urlparse up to the ";" of the
\* last segment (_splitparams) when the scheme uses params
SplitParams(scheme, u) ==
    IF scheme \in UsesParams
    THEN Before(u, Find(u, {";"}, IF RFind(u, {"/"}) = 0 THEN 1 ELSE RFind(u, {"/"})))
    ELSE u
CutQuery(u) == Before(u, Find(u, {"?"}, 1))
CutFragment(u) == Before(u, Find(u, {"#"}, 1))
SplitPath(scheme, url) == SplitParams(scheme, CutQuery(CutFragment(url)))

\* ParseResult.hostname: userinfo and port dropped, lower-cased; <<>> for None
HostOf(hostinfo) == Lower(Before(hostinfo, Find(hostinfo, {":"}, 1)))
Hostname(netloc) == HostOf(SubSeq(netloc, RFind(netloc, {"@"}) + 1, Len(netloc)))

\* urlparse(url): [ok, scheme, netloc, path]; ok = FALSE when it raises ValueError
ParsedWith(scheme, n) ==
    IF InvalidNetloc(n.netloc)
    THEN [ok |-> FALSE, scheme |-> <<>>, netloc |-> <<>>, path |-> <<>>]
    ELSE [ok |-> TRUE, scheme |-> scheme, netloc |-> n.netloc,
          path |-> SplitPath(scheme, n.rest)]
ParsedFrom(s) == ParsedWith(s.scheme, SplitNetloc(s.rest))
UrlParse(url) == ParsedFrom(SplitScheme(SelectSeq(url, LAMBDA p : p \notin UnsafeBytes)))

\* [part for part in path.split("/") if part]
RECURSIVE PathParts(_)
PathParts(path) ==
    IF path = <<>> THEN <<>>
    ELSE (IF Before(path, Find(path, {"/"}, 1)) = <<>> THEN <<>>
          ELSE <<Before(path, Find(path, {"/"}, 1))>>)
         \o PathParts(After(path, Find(path, {"/"}, 1)))

-----------------------------------------------------------------------------
(* _spotify_track_id *)

Returned(v) == [k |-> "return", v |-> v]
Raised(e) == [k |-> "raise", e |-> e]

SpotifyHost == <<"open.spotify.com">>

\* _spotify_track_id(url): Returned(None), Returned(Str(id)) or Raised("ValueError")
\* lines 273-277
CheckedTrackId(track_id) ==
    IF track_id = <<>> \/ ~IsAlnum(track_id) THEN Returned(None)
    ELSE Returned(Str(track_id))
\* lines 269-277
TrackIdOfParts(path_parts) ==
    IF Len(path_parts) # 2 \/ path_parts[1] # <<"track">> THEN Returned(None)
    ELSE CheckedTrackId(Strip(path_parts[2]))
\* lines 265-277
TrackIdOfParsed(parsed) ==
    IF ~parsed.ok THEN Raised("ValueError")
    ELSE IF parsed.scheme \notin {<<"http">>, <<"https">>}
            \/ Hostname(parsed.netloc) # SpotifyHost
    THEN Returned(None)
    ELSE TrackIdOfParts(PathParts(parsed.path))
SpotifyTrackId(url) == TrackIdOfParsed(UrlParse(Strip(url)))

\* download, lines 27-29: the branch the track id chooses
BranchOf(spotify_track_id) ==
    IF spotify_track_id.k = "raise" THEN [branch |-> "crash", id |-> None]
    ELSE IF spotify_track_id.v # None
    THEN [branch |-> "spotify", id |-> spotify_track_id.v]
    ELSE [branch |-> "direct", id |-> None]
\* download, lines 22-29, on the trimmed reference
DispatchTrimmed(trimmed_url) ==
    IF trimmed_url = <<>> THEN [branch |-> "invalid", id |-> None]
    ELSE BranchOf(SpotifyTrackId(trimmed_url))
\* the blank check made on the reference as given, before it is trimmed
DispatchUntrimmedCheck(url) ==
    IF url = <<>> THEN [branch |-> "invalid", id |-> None]
    ELSE BranchOf(SpotifyTrackId(Strip(url)))
\* download, lines 21-29: the blank check and the choice of a branch
Dispatch(url) == DispatchTrimmed(Strip(url))

-----------------------------------------------------------------------------
(* The references the dispatch is checked on *)

MaxSegs == 3

RefPads == {<<>>, <<" ">>}
RefSchemes == {<<>>, <<"https", ":">>, <<"http", ":">>, <<"HTTPS", ":">>, <<"ftp", ":">>}
RefHosts == {<<>>,
             <<"/", "/", "open.spotify.com">>,
             <<"/", "/", "Open.Spotify.COM">>,
             <<"/", "/", "example.com">>,
             <<"/", "/", "user", "@", "open.spotify.com", ":", "80">>,
             <<"/", "/", "[", "open.spotify.com">>,
             <<"/", "/", "open.spotify.com", "@", "example.com">>}
RefSegs == {<<>>, <<"track">>, <<"album">>, <<"ABC123">>, <<"a-b">>, <<" ", "ABC123">>}
RefTails == {<<>>, <<"/">>, <<"?", "q">>, <<"#", "f">>, <<";", "p">>}

RECURSIVE RefPaths(_)
RefPaths(n) ==
    IF n = 0 THEN {<<>>}
    ELSE RefPaths(n - 1) \cup
         {p \o <<"/">> \o s : p \in RefPaths(n - 1), s \in RefSegs}

\* the references of at most n path segments
Refs(n) ==
    {pad \o sch \o host \o path \o tail \o pad :
        pad \in RefPads, sch \in RefSchemes, host \in RefHosts,
        path \in RefPaths(n), tail \in RefTails}

RInit ==
    /\ rref \in Refs(MaxSegs)
    /\ rpc = "call"
    /\ rout = [branch |-> "pending", id |-> None]

\* download(url) up to the choice of its branch
ResolveCall ==
    /\ rpc = "call"
    /\ rout' = Dispatch(rref)
    /\ rpc' = "done"
    /\ UNCHANGED rref

RIdle == rref = <<>> /\ rpc = "idle" /\ rout = [branch |-> "pending", id |-> None]

-----------------------------------------------------------------------------
(* download, lines 115-175: the thumbnail *)

Digits == <<"0", "1", "2", "3", "4", "5", "6", "7", "8", "9">>
IsDigit(p) == \E i \in 1..Len(Digits) : Digits[i] = p
DigitVal(p) == (CHOOSE i \in 1..Len(Digits) : Digits[i] = p) - 1

RECURSIVE Decimal(_)
Decimal(s) ==
    IF s = <<>> THEN 0
    ELSE 10 * Decimal(SubSeq(s, 1, Len(s) - 1)) + DigitVal(s[Len(s)])

\* int(v): [ok, n]; ok = FALSE when int raises (ValueError for a string that is
\* no number, TypeError for None, a list or a dict).  The strings of this model
\* are unsigned decimal numerals, possibly padded with whitespace, or no numbers.
ParseDecimal(d) ==
    IF d # <<>> /\ \A i \in 1..Len(d) : IsDigit(d[i])
    THEN [ok |-> TRUE, n |-> Decimal(d)]
    ELSE [ok |-> FALSE, n |-> 0]
PyInt(v) ==
    CASE v.t = "int" -> [ok |-> TRUE, n |-> v.n]
      [] v.t = "str" -> ParseDecimal(Strip(v.s))
      [] OTHER -> [ok |-> FALSE, n |-> 0]

\* lines 125-128: (int(w), int(h)), or (0, 0) when either int raises
DimsOf(w, h) == IF w.ok /\ h.ok THEN [w |-> w.n, h |-> h.n] ELSE [w |-> 0, h |-> 0]

\* _dims(t), lines 120-128
Dims(th) ==
    IF ~IsDict(th) THEN [w |-> 0, h |-> 0]
    ELSE DimsOf(PyInt(Or(GetKey(th, "width"), Num(0))),
                PyInt(Or(GetKey(th, "height"), Num(0))))

\* _area(t), lines 130-132
AreaOf(d) == d.w * d.h
Area(th) == AreaOf(Dims(th))

Abs(n) == IF n < 0 THEN -n ELSE n

SquareTol == 2

\* _is_square(t, tol=2), lines 134-136
SquareDims(d) == d.w > 0 /\ d.h > 0 /\ Abs(d.w - d.h) <= SquareTol
IsSquare(th) == SquareDims(Dims(th))

\* max over the positions of a, a function from positions to keys: Python's
\* max keeps the first of the maximal elements
FirstMax(a) ==
    CHOOSE i \in DOMAIN a :
        \A j \in DOMAIN a : a[j] < a[i] \/ (a[j] = a[i] /\ i <= j)

\* max(candidates, key=_area), the candidates being the positions idxs of list l
MaxByArea(l, idxs) == FirstMax([i \in idxs |-> Area(l[i])])

\* lines 140-145, square_thumbs being the positions of the square candidates
ChoiceAmong(l, square_thumbs) ==
    IF square_thumbs # {} THEN MaxByArea(l, square_thumbs)
    ELSE MaxByArea(l, 1..Len(l))

\* lines 139-145: the position in thumbnails of thumbnail_info
ThumbnailChoice(l) == ChoiceAmong(l, {i \in 1..Len(l) : IsSquare(l[i])})

\* lines 151-162: int(w) if isinstance(w, (int, float)) else None
DimValue(w) == IF w.t = "int" THEN w ELSE None
ThumbDim(thumbnail_info, k) ==
    IF IsDict(thumbnail_info) THEN DimValue(GetKey(thumbnail_info, k)) ELSE None

\* lines 164-175: the thumbnail fields of the result
ThumbFields(idx, thumbnail_url, thumb_w, thumb_h) ==
    [crash |-> FALSE, idx |-> idx, url |-> thumbnail_url,
     width |-> thumb_w, height |-> thumb_h,
     is_square |-> (thumb_w # None /\ thumb_h # None /\ thumb_w = thumb_h)]

\* line 146 and lines 151-175, thumbnail_info being the chosen candidate;
\* crash is the AttributeError of line 146
ThumbOfUrl(idx, thumbnail_info, thumbnail_url) ==
    IF thumbnail_url = Crash
    THEN [crash |-> TRUE, idx |-> idx, url |-> None, width |-> None,
          height |-> None, is_square |-> FALSE]
    ELSE ThumbFields(idx, thumbnail_url, ThumbDim(thumbnail_info, "width"),
                     ThumbDim(thumbnail_info, "height"))
ThumbOfInfo(idx, thumbnail_info) ==
    ThumbOfUrl(idx, thumbnail_info, GetKey(Or(thumbnail_info, EmptyDict), "url"))
ThumbOfChoice(l, idx) == ThumbOfInfo(idx, l[idx])

\* lines 138-149, thumbnails being info.get("thumbnails") or []
ThumbOfList(info, thumbnails) ==
    IF IsList(thumbnails) /\ Truthy(thumbnails)
    THEN ThumbOfChoice(thumbnails.l, ThumbnailChoice(thumbnails.l))
    ELSE ThumbOfUrl(0, None, GetKey(info, "thumbnail"))

\* lines 116-175: [crash, idx, url, width, height, is_square]; idx is the position
\* of the chosen candidate, 0 when the list is not used
ThumbnailStep(info) == ThumbOfList(info, Or(GetKey(info, "thumbnails"), List(<<>>)))

\* the record extract_info returns: the keys download reads
Info(title, artists, artist, uploader, channel, thumbnails, thumbnail) ==
    [t |-> "dict", title |-> title, artists |-> artists, artist |-> artist,
     uploader |-> uploader, channel |-> channel, thumbnails |-> thumbnails,
     thumbnail |-> thumbnail]

Thumb(url, width, height) == [t |-> "dict", url |-> url, width |-> width, height |-> height]

-----------------------------------------------------------------------------
(* download, lines 70-113 and 164-177: title, artists, overrides, the result *)

\* DownloadOverrides(title, artists), lines 15-18
Overrides(title, artists) == [t |-> "overrides", title |-> title, artists |-> artists]

\* Path(full_path).stem: the last component without its last suffix
StemOfName(name, dot) ==
    IF dot > 1 /\ dot < Len(name) THEN SubSeq(name, 1, dot - 1) ELSE name
NameOf(path) == SubSeq(path, RFind(path, {"/"}) + 1, Len(path))
Stem(path) == StemOfName(NameOf(path), RFind(NameOf(path), {"."}))

\* line 85
ExtractorTitle(info, full_path) == Or(GetKey(info, "title"), Str(Stem(full_path)))

UnknownArtist == <<Str(<<"Unknown Artist">>)>>

\* the fallback chain without its sentinel
ExtractorArtistsNoSentinel(info) ==
    IF Truthy(GetKey(info, "artists")) /\ IsList(GetKey(info, "artists"))
    THEN GetKey(info, "artists").l
    ELSE IF Truthy(GetKey(info, "artist")) THEN <<GetKey(info, "artist")>>
    ELSE IF Truthy(GetKey(info, "uploader")) THEN <<GetKey(info, "uploader")>>
    ELSE IF Truthy(GetKey(info, "channel")) THEN <<GetKey(info, "channel")>>
    ELSE <<>>
\* lines 87-100
ExtractorArtists(info) ==
    IF Truthy(GetKey(info, "artists")) /\ IsList(GetKey(info, "artists"))
    THEN GetKey(info, "artists").l
    ELSE IF Truthy(GetKey(info, "artist")) THEN <<GetKey(info, "artist")>>
    ELSE IF Truthy(GetKey(info, "uploader")) THEN <<GetKey(info, "uploader")>>
    ELSE IF Truthy(GetKey(info, "channel")) THEN <<GetKey(info, "channel")>>
    ELSE UnknownArtist

\* lines 103-106
OverrideTitle(overrides, title) ==
    IF overrides # None /\ Truthy(overrides.title)
       /\ Strip(overrides.title.s) # <<>>
    THEN Str(Strip(overrides.title.s))
    ELSE title

\* [artist.strip() for artist in artists if artist.strip()], lines 109-111
StripAll(kept) == [i \in 1..Len(kept) |-> Str(Strip(kept[i].s))]
StripNonBlank(l) == StripAll(SelectSeq(l, LAMBDA a : Strip(a.s) # <<>>))

\* the override entries appended to the extractor's artists (extend for replace)
OverrideArtistsExtend(overrides, artists) ==
    IF overrides # None /\ Truthy(overrides.artists)
       /\ StripNonBlank(overrides.artists.l) # <<>>
    THEN artists \o StripNonBlank(overrides.artists.l)
    ELSE artists
\* lines 108-113
OverrideArtists(overrides, artists) ==
    IF overrides # None /\ Truthy(overrides.artists)
       /\ StripNonBlank(overrides.artists.l) # <<>>
    THEN StripNonBlank(overrides.artists.l)
    ELSE artists

\* lines 76-177, after extract_info and prepare_filename have answered
Meta(full_path, trimmed_url, title, artists, thumb) ==
    IF thumb.crash THEN Raised("AttributeError")
    ELSE Returned([path |-> full_path,
                   original_url |-> trimmed_url,
                   title |-> title,
                   artists |-> artists,
                   thumbnail_url |-> thumb.url,
                   thumbnail_width |-> thumb.width,
                   thumbnail_height |-> thumb.height,
                   thumbnail_is_square |-> thumb.is_square])
Normalize(trimmed_url, info, full_path, overrides) ==
    IF info = None
    THEN Raised("Failed to retrieve video information (manually thrown)")
    ELSE Meta(full_path, trimmed_url,
              OverrideTitle(overrides, ExtractorTitle(info, full_path)),
              OverrideArtists(overrides, ExtractorArtists(info)),
              ThumbnailStep(info))

-----------------------------------------------------------------------------
(* _download_spotify, lines 183-259 *)

\* d.get(k, default)
GetKeyDefault(d, k, default) ==
    IF ~IsDict(d) THEN Crash
    ELSE IF k \in DOMAIN d /\ d[k] # Missing THEN d[k] ELSE default

\* lines 213-217; Crash when a .get is called on None
PropsOf(payload) == Or(GetKey(payload, "props"), EmptyDict)
PagePropsOf(payload) == Or(GetKey(PropsOf(payload), "pageProps"), EmptyDict)
StateOf(payload) == Or(GetKey(PagePropsOf(payload), "state"), EmptyDict)
DataOf(payload) == GetKeyDefault(StateOf(payload), "data", EmptyDict)
EntityOf(payload) == Or(GetKey(DataOf(payload), "entity"), EmptyDict)

\* line 219 (the title and name of this model are strings or absent)
EntityTitle(entity) ==
    Strip(Or(Or(GetKey(entity, "title"), GetKey(entity, "name")), Str(<<>>)).s)

\* (artist.get("name") or "").strip()
ArtistName(artist) == Strip(Or(GetKey(artist, "name"), Str(<<>>)).s)

\* lines 220-224
NamesOf(kept) == [i \in 1..Len(kept) |-> Str(ArtistName(kept[i]))]
EntityArtists(entity) ==
    NamesOf(SelectSeq(Or(GetKey(entity, "artists"), List(<<>>)).l,
                      LAMBDA a : IsDict(a) /\ ArtistName(a) # <<>>))

\* " ".join(parts)
RECURSIVE JoinSpace(_)
JoinSpace(parts) ==
    IF parts = <<>> THEN <<>>
    ELSE IF Len(parts) = 1 THEN parts[1].s
    ELSE parts[1].s \o <<" ">> \o JoinSpace(Tail(parts))

\* line 229
SearchQuery(title, artists) == Strip(JoinSpace(<<Str(title)>> \o artists))

\* lines 239-243: the URL handed on, or the error
\* lines 239-241
YoutubeUrl(results) ==
    IF IsList(results) /\ Truthy(results)
    THEN GetKey(Or(results.l[1], EmptyDict), "url")
    ELSE None
\* lines 242-243 and the argument of line 259
CheckedUrl(youtube_url) ==
    IF youtube_url = Crash THEN Raised("AttributeError")
    ELSE IF ~IsStr(youtube_url) \/ Strip(youtube_url.s) = <<>>
    THEN Raised("No YouTube results found for Spotify track")
    ELSE Returned(Strip(youtube_url.s))
SearchTopUrl(results) == CheckedUrl(YoutubeUrl(results))

\* lines 245-257
Merged(overrides, spotify_overrides) ==
    Overrides(IF overrides # None /\ overrides.title # None
              THEN overrides.title ELSE spotify_overrides.title,
              IF overrides # None /\ overrides.artists # None
              THEN overrides.artists ELSE spotify_overrides.artists)
MergeOverrides(overrides, title, artists) ==
    Merged(overrides, Overrides(Str(title), Tuple(artists)))

-----------------------------------------------------------------------------
(* The thumbnail lists the selection is checked on *)

MaxThumbs == 2

ThumbDimValues == {Missing, None, Num(1), Num(2), Num(4), Num(5), Num(-2),
                   Str(<<"3">>), Str(<<"x">>)}
\* the candidates: dicts, and the non-dict entries _dims allows for
ThumbCandidates ==
    {Thumb(Str(<<"u">>), w, h) : w \in ThumbDimValues, h \in ThumbDimValues}
        \cup {None, Str(<<"u">>)}

ThumbLists == UNION {[1..n -> ThumbCandidates] : n \in 1..MaxThumbs}

NoThumb == [crash |-> FALSE, idx |-> 0, url |-> None, width |-> None,
            height |-> None, is_square |-> FALSE]

TInit == tthumbs \in ThumbLists /\ tpc = "call" /\ tout = NoThumb
TIdle == tthumbs = <<>> /\ tpc = "idle" /\ tout = NoThumb

\* lines 115-175 of download on info = {"thumbnails": tthumbs}
ThumbCall ==
    /\ tpc = "call"
    /\ tout' = ThumbnailStep(Info(Missing, Missing, Missing, Missing, Missing,
                                  List(tthumbs), Missing))
    /\ tpc' = "done"
    /\ UNCHANGED tthumbs

-----------------------------------------------------------------------------
(* One top-level call of download: the state *)

VARIABLES
    \* ---- one top-level call of download (lines 21-259)
    reference,        \* the url argument of the top-level call
    caller,           \* the overrides argument of the top-level call
    pc,               \* "download" | "fetch" | "search" | "extract" | "done"
    url,              \* the url argument of the running call of download
    overrides,        \* the overrides argument of the running call
    trimmed_url,      \* line 22
    track_id,         \* line 27
    spotify_title,    \* title of _download_spotify, line 219
    spotify_artists,  \* artists of _download_spotify, lines 220-224
    search_query,     \* line 229
    response,         \* what requests.get answered to the step just taken
    results,          \* what search_youtube answered to the step just taken
    info,             \* what extract_info returned
    full_path,        \* line 82
    io,               \* how often each collaborator was called
    outcome           \* pending, or what the top-level call returned or raised

pvars == <<reference, caller, pc, url, overrides, trimmed_url, track_id,
           spotify_title, spotify_artists, search_query, response, results,
           info, full_path, io, outcome>>

-----------------------------------------------------------------------------
(* One top-level call of download: the collaborators' answers *)

Unset == [t |-> "unset"]
Pending == [k |-> "pending"]

\* the text of the __NEXT_DATA__ script or of the search answer: json.loads
\* gives json, or raises JSONDecodeError when the text is no JSON
Text(json) == [t |-> "text", valid |-> TRUE, json |-> json]
NotJson == [t |-> "text", valid |-> FALSE]

HttpOk == 200

Artist(name) == [t |-> "dict", name |-> name]
Entity(title, name, artists) ==
    [t |-> "dict", title |-> title, name |-> name, artists |-> artists]

Entities ==
    {Entity(ti, na, ar) :
        ti \in {Missing, None, Str(<<>>), Str(<<" ", "T", " ">>)},
        na \in {Missing, Str(<<"N">>)},
        ar \in {Missing, None, List(<<>>), List(<<Artist(Str(<<"X">>))>>),
                List(<<Artist(Str(<<" ">>)), Str(<<"Z">>), Artist(Missing),
                       Artist(Str(<<" ", "Y", " ">>)), Artist(Str(<<"X">>))>>)}}

Absent == {Missing, None}

\* the payloads: every level of props.pageProps.state.data.entity missing, null
\* or an object; and a JSON text that is no object
Payloads ==
    {[t |-> "dict", props |-> a] : a \in Absent}
    \cup {[t |-> "dict", props |-> [t |-> "dict", pageProps |-> a]] : a \in Absent}
    \cup {[t |-> "dict", props |-> [t |-> "dict", pageProps |->
             [t |-> "dict", state |-> a]]] : a \in Absent}
    \cup {[t |-> "dict", props |-> [t |-> "dict", pageProps |->
             [t |-> "dict", state |-> [t |-> "dict", data |-> a]]]] : a \in Absent}
    \cup {[t |-> "dict", props |-> [t |-> "dict", pageProps |->
             [t |-> "dict", state |-> [t |-> "dict", data |->
                [t |-> "dict", entity |-> e]]]]] : e \in Absent \cup Entities}
    \cup {List(<<>>)}

\* requests.get and BeautifulSoup: the status and the script text (None when
\* the page has no such script or the script is empty)
Responses ==
    {[status |-> 404, script |-> None], [status |-> HttpOk, script |-> None],
     [status |-> HttpOk, script |-> NotJson]}
    \cup {[status |-> HttpOk, script |-> Text(p)] : p \in Payloads}

VideoUrl == <<"https", ":", "/", "/", "example.com", "/", "watch">>
OtherUrl == <<"https", ":", "/", "/", "example.com", "/", "album">>
TrackUrl == <<"https", ":", "/", "/", "open.spotify.com", "/", "track", "/", "ABC123">>

Result(u) == [t |-> "dict", url |-> u]

\* search_youtube: the answers json.loads makes of its text
SearchAnswers ==
    {NotJson}
    \cup {Text(r) : r \in
            {None, Result(Str(VideoUrl)), List(<<>>),
             List(<<None>>), List(<<Num(0)>>), List(<<Num(5)>>),
             List(<<Str(VideoUrl)>>), List(<<List(<<Result(Str(VideoUrl))>>)>>),
             List(<<Result(Missing), Result(Str(VideoUrl))>>),
             List(<<Result(None)>>), List(<<Result(Num(5))>>),
             List(<<Result(Str(<<" ">>)), Result(Str(VideoUrl))>>),
             List(<<Result(Str(<<" ">> \o VideoUrl \o <<" ">>)), Result(Str(OtherUrl))>>),
             List(<<Result(Str(TrackUrl)), Result(Str(VideoUrl))>>)}}

\* extract_info: the records, over the keys download reads
InfoThumbs ==
    {<<Missing, Missing>>, <<Missing, Str(<<"u">>)>>,
     <<List(<<Thumb(Str(<<"a">>), Num(4), Num(2)), Thumb(Str(<<"b">>), Num(2), Num(2))>>),
       Str(<<"u">>)>>,
     <<List(<<Str(<<"u">>)>>), Missing>>}
Infos ==
    {Info(ti, ars, ar, up, ch, th[1], th[2]) :
        ti \in {Missing, Str(<<"ET">>)},
        ars \in {Missing, List(<<>>), List(<<Str(<<"EA1">>), Str(<<"EA2">>)>>),
                 Str(<<"EAS">>)},
        ar \in {Missing, Str(<<"Solo">>)},
        up \in {Missing, Str(<<"Up">>)},
        ch \in {Missing, Str(<<"Ch">>)},
        th \in InfoThumbs}

\* prepare_filename on outtmpl "<tmp>/%(uploader_id)s-%(id)s.%(ext)s"
EnginePaths == {<<"/", "tmp", "/", "up-vid", ".", "m4a">>}

\* the arguments of the top-level call
PipelineRefs == {<<>>, <<" ">>, <<" ">> \o TrackUrl, VideoUrl,
                 <<"https", ":", "/", "/", "[", "example.com", "/", "watch">>}
CallerOverrides ==
    {None} \cup
    {Overrides(ti, ar) :
        ti \in {None, Str(<<>>), Str(<<" ">>), Str(<<" ", "O", " ">>)},
        ar \in {None, Tuple(<<>>), Tuple(<<Str(<<" ">>), Str(<<>>)>>),
                Tuple(<<Str(<<"A", " ">>), Str(<<>>), Str(<<" ", "B">>)>>)}}

\* the passes through _download_spotify the model follows in one call
MaxPasses == 2

-----------------------------------------------------------------------------
(* One top-level call of download: the steps *)

NoIo == [fetch |-> 0, search |-> 0, mkdir |-> 0, extract |-> 0]

PInit ==
    /\ reference \in PipelineRefs
    /\ caller \in CallerOverrides
    /\ pc = "download"
    /\ url = reference
    /\ overrides = caller
    /\ trimmed_url = <<>>
    /\ track_id = None
    /\ spotify_title = <<>>
    /\ spotify_artists = <<>>
    /\ search_query = <<>>
    /\ response = Unset
    /\ results = Unset
    /\ info = Unset
    /\ full_path = <<>>
    /\ io = NoIo
    /\ outcome = Pending

PIdle ==
    /\ reference = <<>> /\ caller = None /\ pc = "idle" /\ url = <<>>
    /\ overrides = None /\ trimmed_url = <<>> /\ track_id = None
    /\ spotify_title = <<>> /\ spotify_artists = <<>> /\ search_query = <<>>
    /\ response = Unset /\ results = Unset /\ info = Unset /\ full_path = <<>>
    /\ io = NoIo /\ outcome = Pending

\* download(url, overrides), lines 21-68: the blank check, the choice of the
\* branch, and on the direct branch the two directories
Enter(d) ==
    /\ d.branch = "spotify" => io.fetch < MaxPasses
    /\ track_id' = d.id
    /\ pc' = CASE d.branch = "spotify" -> "fetch"
               [] d.branch = "direct" -> "extract"
               [] OTHER -> "done"
    /\ outcome' = CASE d.branch = "invalid" -> Raised("URL cannot be empty")
                    [] d.branch = "crash" -> Raised("Invalid IPv6 URL")
                    [] OTHER -> outcome
    /\ io' = IF d.branch = "direct" THEN [io EXCEPT !.mkdir = @ + 2] ELSE io

DownloadEntry ==
    /\ pc = "download"
    /\ Enter(Dispatch(url))
    /\ trimmed_url' = Strip(url)
    /\ response' = Unset
    /\ results' = Unset
    /\ UNCHANGED <<reference, caller, url, overrides, spotify_title,
                   spotify_artists, search_query, info, full_path>>

\* _download_spotify, lines 193-227, on what the embed page answered:
\* Raised(...) or Returned([title, artists])
\* lines 226-227
CheckedMetadata(title, artists) ==
    IF title = <<>> \/ artists = <<>>
    THEN Raised("Spotify track metadata is missing title or artists")
    ELSE Returned([title |-> title, artists |-> artists])
\* lines 219-227; a .get on None in lines 213-217 is an AttributeError
MetadataOf(entity) ==
    IF entity = Crash THEN Raised("AttributeError")
    ELSE CheckedMetadata(EntityTitle(entity), EntityArtists(entity))
SpotifyMetadata(r) ==
    IF r.status # HttpOk THEN Raised("Failed to fetch Spotify embed page")
    ELSE IF r.script = None THEN Raised("Spotify embed page is missing __NEXT_DATA__ JSON")
    ELSE IF ~r.script.valid THEN Raised("Failed to parse Spotify __NEXT_DATA__ JSON")
    ELSE MetadataOf(EntityOf(r.script.json))

Fetched(m) ==
    IF m.k = "raise"
    THEN /\ outcome' = m
         /\ pc' = "done"
         /\ UNCHANGED <<spotify_title, spotify_artists, search_query>>
    ELSE /\ spotify_title' = m.v.title
         /\ spotify_artists' = m.v.artists
         /\ search_query' = SearchQuery(m.v.title, m.v.artists)
         /\ pc' = "search"
         /\ UNCHANGED outcome

\* _download_spotify, lines 183-229: the embed page is fetched and read
SpotifyFetch ==
    /\ pc = "fetch"
    /\ \E r \in Responses :
        /\ response' = r
        /\ Fetched(SpotifyMetadata(r))
    /\ io' = [io EXCEPT !.fetch = @ + 1]
    /\ results' = Unset
    /\ UNCHANGED <<reference, caller, url, overrides, trimmed_url, track_id,
                   info, full_path>>

\* lines 234-243 on the search answer: Raised(...) or Returned(url)
SearchOutcome(a) ==
    IF ~a.valid THEN Raised("Invalid JSON returned from YouTube search")
    ELSE SearchTopUrl(a.json)

Searched(u) ==
    IF u.k = "raise"
    THEN /\ outcome' = u
         /\ pc' = "done"
         /\ UNCHANGED <<url, overrides>>
    ELSE /\ url' = u.v
         /\ overrides' = MergeOverrides(overrides, spotify_title, spotify_artists)
         /\ pc' = "download"
         /\ UNCHANGED outcome

\* _download_spotify, lines 230-259: the search, the choice of the URL, the
\* merge of the overrides and the call of download
SpotifySearch ==
    /\ pc = "search"
    /\ \E a \in SearchAnswers :
        /\ results' = a
        /\ Searched(SearchOutcome(a))
    /\ io' = [io EXCEPT !.search = @ + 1]
    /\ response' = Unset
    /\ UNCHANGED <<reference, caller, trimmed_url, track_id, spotify_title,
                   spotify_artists, search_query, info, full_path>>

\* download, lines 70-177: the extraction and the result
Extract ==
    /\ pc = "extract"
    /\ \E i \in Infos \cup {None}, f \in EnginePaths :
        /\ info' = i
        /\ full_path' = IF i = None THEN full_path ELSE f
        /\ outcome' = Normalize(trimmed_url, i, f, overrides)
    /\ io' = [io EXCEPT !.extract = @ + 1]
    /\ pc' = "done"
    /\ response' = Unset
    /\ results' = Unset
    /\ UNCHANGED <<reference, caller, url, overrides, trimmed_url, track_id,
                   spotify_title, spotify_artists, search_query>>

-----------------------------------------------------------------------------
(* capture_logs (capture_logs.py, lines 9-20) *)

VARIABLES
    cpc,          \* "call" | "func" | "raised" | "exit" | "done"
    sys_stdout,   \* the stream sys.stdout is bound to
    sys_stderr,   \* the stream sys.stderr is bound to
    streams,      \* what each stream has received, in order
    old_targets,  \* what redirect_stdout / redirect_stderr restore on exit
    result,       \* line 12, line 16
    raised,       \* the class of the exception func raised, "" for none
    caller_out,   \* the stream sys.stdout was bound to at the call
    caller_err,   \* the stream sys.stderr was bound to at the call
    written,      \* what func has written, in order, on either stream
    cout          \* pending, or what capture_logs returned or raised

cvars == <<cpc, sys_stdout, sys_stderr, streams, old_targets, result, raised,
           caller_out, caller_err, written, cout>>

\* the writes of func the model follows
MaxWrites == 2

StreamNames == {"tty_out", "tty_err", "log_buffer"}
OutputTexts == {"hello\n", "warn\n"}
\* what traceback.print_exc() writes
Trace == "Traceback (most recent call last): ..."
\* what func returns
FuncValues == {None, Num(1)}
\* the classes of what func raises, each with its direct base class in Python's
\* exception hierarchy ("" for the root)
BaseOf ==
    [BaseException |-> "",
     Exception |-> "BaseException",
     SystemExit |-> "BaseException",
     KeyboardInterrupt |-> "BaseException",
     GeneratorExit |-> "BaseException",
     CancelledError |-> "BaseException",
     ValueError |-> "Exception",
     RuntimeError |-> "Exception",
     RecursionError |-> "RuntimeError"]
ExceptionClasses == DOMAIN BaseOf

\* issubclass(class, of)
RECURSIVE IsSubclass(_, _)
IsSubclass(class, of) ==
    \/ class = of
    \/ class \in DOMAIN BaseOf /\ BaseOf[class] # "" /\ IsSubclass(BaseOf[class], of)

\* "except Exception", line 17: the classes the handler catches
Caught(class) == IsSubclass(class, "Exception")

\* stream.write(text)
Write(str, stream, text) == [str EXCEPT ![stream] = Append(@, text)]

CInit ==
    /\ cpc = "call"
    /\ sys_stdout = "tty_out"
    /\ sys_stderr \in {"tty_err", "tty_out"}
    /\ streams = [n \in StreamNames |-> <<>>]
    /\ old_targets = <<>>
    /\ result = None
    /\ raised = ""
    /\ caller_out = sys_stdout
    /\ caller_err = sys_stderr
    /\ written = <<>>
    /\ cout = Pending

CIdle ==
    /\ cpc = "idle" /\ sys_stdout = "tty_out" /\ sys_stderr = "tty_err"
    /\ streams = [n \in StreamNames |-> <<>>] /\ old_targets = <<>>
    /\ result = None /\ raised = "" /\ caller_out = "tty_out"
    /\ caller_err = "tty_err" /\ written = <<>> /\ cout = Pending

\* lines 11-14: the buffer, and the two redirections entered in order
CaptureEnter ==
    /\ cpc = "call"
    /\ streams' = [streams EXCEPT !["log_buffer"] = <<>>]
    /\ result' = None
    /\ old_targets' = <<sys_stdout, sys_stderr>>
    /\ sys_stdout' = "log_buffer"
    /\ sys_stderr' = "log_buffer"
    /\ cpc' = "func"
    /\ UNCHANGED <<raised, caller_out, caller_err, written, cout>>

\* func prints on sys.stdout
FuncPrintOut ==
    /\ cpc = "func"
    /\ Len(written) < MaxWrites
    /\ \E text \in OutputTexts :
        /\ streams' = Write(streams, sys_stdout, text)
        /\ written' = Append(written, text)
    /\ UNCHANGED <<cpc, sys_stdout, sys_stderr, old_targets, result, raised,
                   caller_out, caller_err, cout>>

\* func prints on sys.stderr
FuncPrintErr ==
    /\ cpc = "func"
    /\ Len(written) < MaxWrites
    /\ \E text \in OutputTexts :
        /\ streams' = Write(streams, sys_stderr, text)
        /\ written' = Append(written, text)
    /\ UNCHANGED <<cpc, sys_stdout, sys_stderr, old_targets, result, raised,
                   caller_out, caller_err, cout>>

\* line 16: func returns
FuncReturn ==
    /\ cpc = "func"
    /\ \E v \in FuncValues : result' = v
    /\ cpc' = "exit"
    /\ UNCHANGED <<sys_stdout, sys_stderr, streams, old_targets, raised,
                   caller_out, caller_err, written, cout>>

\* line 16: func raises
FuncRaise ==
    /\ cpc = "func"
    /\ \E class \in ExceptionClasses : raised' = class
    /\ cpc' = "raised"
    /\ UNCHANGED <<sys_stdout, sys_stderr, streams, old_targets, result,
                   caller_out, caller_err, written, cout>>

\* lines 17-18: the handler, for the classes it catches, prints the trace on
\* sys.stderr; any other exception leaves the try statement uncaught
CaptureExcept ==
    /\ cpc = "raised"
    /\ streams' = IF Caught(raised) THEN Write(streams, sys_stderr, Trace) ELSE streams
    /\ cpc' = "exit"
    /\ UNCHANGED <<sys_stdout, sys_stderr, old_targets, result, raised,
                   caller_out, caller_err, written, cout>>

\* lines 14 and 20: the redirections are left in reverse order, each restoring
\* its old target, and the pair is returned unless an exception is on its way
CaptureExit ==
    /\ cpc = "exit"
    /\ sys_stderr' = old_targets[2]
    /\ sys_stdout' = old_targets[1]
    /\ old_targets' = <<>>
    /\ cout' = IF raised # "" /\ ~Caught(raised) THEN Raised(raised)
               ELSE Returned(<<result, streams["log_buffer"]>>)
    /\ cpc' = "done"
    /\ UNCHANGED <<streams, result, raised, caller_out, caller_err, written>>

-----------------------------------------------------------------------------
(* The specifications *)

vars == <<rvars, tvars, pvars, cvars>>

\* the dispatch of download on every reference of Refs
RNext == ResolveCall /\ UNCHANGED <<tvars, pvars, cvars>>
InitResolve == RInit /\ TIdle /\ PIdle /\ CIdle
SpecResolve == InitResolve /\ [][RNext]_vars

\* the thumbnail selection on every list of ThumbLists
TNext == ThumbCall /\ UNCHANGED <<rvars, pvars, cvars>>
InitThumb == TInit /\ RIdle /\ PIdle /\ CIdle
SpecThumb == InitThumb /\ [][TNext]_vars

\* one top-level call of download
Next ==
    \/ DownloadEntry /\ UNCHANGED <<rvars, tvars, cvars>>
    \/ SpotifyFetch /\ UNCHANGED <<rvars, tvars, cvars>>
    \/ SpotifySearch /\ UNCHANGED <<rvars, tvars, cvars>>
    \/ Extract /\ UNCHANGED <<rvars, tvars, cvars>>
Init == PInit /\ RIdle /\ TIdle /\ CIdle
Spec == Init /\ [][Next]_vars

\* one call of capture_logs
CNext ==
    \/ CaptureEnter /\ UNCHANGED <<rvars, tvars, pvars>>
    \/ FuncPrintOut /\ UNCHANGED <<rvars, tvars, pvars>>
    \/ FuncPrintErr /\ UNCHANGED <<rvars, tvars, pvars>>
    \/ FuncReturn /\ UNCHANGED <<rvars, tvars, pvars>>
    \/ FuncRaise /\ UNCHANGED <<rvars, tvars, pvars>>
    \/ CaptureExcept /\ UNCHANGED <<rvars, tvars, pvars>>
    \/ CaptureExit /\ UNCHANGED <<rvars, tvars, pvars>>
InitCapture == CInit /\ RIdle /\ TIdle /\ PIdle
SpecCapture == InitCapture /\ [][CNext]_vars

-----------------------------------------------------------------------------
(* C9: the dispatch on Spotify track references *)

\* the reference is a Spotify track reference in the claim's sense: it parses as
\* a URL with scheme http or https, host open.spotify.com in any case, and a
\* path of exactly two non-empty segments, "track" and an alphanumeric id (the
\* id taken after trimming, as _spotify_track_id and section 4.2 do)
C9_IsTrackRef(ref) ==
    LET parsed == UrlParse(Strip(ref))
        parts == PathParts(parsed.path)
    IN  /\ parsed.ok
        /\ parsed.scheme \in {<<"http">>, <<"https">>}
        /\ Hostname(parsed.netloc) = <<"open.spotify.com">>
        /\ Len(parts) = 2
        /\ parts[1] = <<"track">>
        /\ IsAlnum(Strip(parts[2]))

C9_TrackOf(ref) == Strip(PathParts(UrlParse(Strip(ref)).path)[2])

\* C9: _spotify_track_id returns the id exactly for the Spotify track
\* references; for every other non-blank reference it returns absent, raises
\* nothing, and download goes on to the direct media branch.
C9_TrackIdContract ==
    (rpc = "done" /\ Strip(rref) # <<>>) =>
        IF C9_IsTrackRef(rref)
        THEN rout = [branch |-> "spotify", id |-> Str(C9_TrackOf(rref))]
        ELSE rout = [branch |-> "direct", id |-> None]

-----------------------------------------------------------------------------
(* C4: the thumbnail selection *)

\* the candidate the claim names: the first of the maximum-area square
\* candidates when there is a square one, else the first of the maximum-area
\* candidates of the whole list
C4_Chosen(l) ==
    LET sq == {i \in 1..Len(l) :
                  Dims(l[i]).w > 0 /\ Dims(l[i]).h > 0
                  /\ Dims(l[i]).w - Dims(l[i]).h \in -2..2}
        pool == IF sq # {} THEN sq ELSE 1..Len(l)
        best == SetMax({Dims(l[i]).w * Dims(l[i]).h : i \in pool})
    IN  SetMin({i \in pool : Dims(l[i]).w * Dims(l[i]).h = best})

\* C4: for any non-empty thumbnails list the selection raises nothing and
\* chooses the candidate C4_Chosen names.
C4_ThumbnailSelection ==
    tpc = "done" => (~tout.crash /\ tout.idx = C4_Chosen(tthumbs))

\* C4, as far as the code goes: the choice is the one the claim names whenever
\* the selection raises nothing, and it raises nothing when the chosen
\* candidate is a dict or is falsy.
C4_ChoiceWhenNoCrash ==
    tpc = "done" =>
        /\ tout.idx = C4_Chosen(tthumbs)
        /\ tout.crash <=> (~IsDict(tthumbs[tout.idx]) /\ Truthy(tthumbs[tout.idx]))

-----------------------------------------------------------------------------
(* What the claims mean by trimming, blank and the non-blank entries *)

RECURSIVE C_LTrim(_)
C_LTrim(str) ==
    IF str # <<>> /\ Head(str) \in {" ", "\t", "\n", "\r"} THEN C_LTrim(Tail(str))
    ELSE str
RECURSIVE C_RTrim(_)
C_RTrim(str) ==
    IF str # <<>> /\ str[Len(str)] \in {" ", "\t", "\n", "\r"}
    THEN C_RTrim(SubSeq(str, 1, Len(str) - 1))
    ELSE str
C_Trim(str) == C_RTrim(C_LTrim(str))
C_Blank(str) == \A i \in 1..Len(str) : str[i] \in {" ", "\t", "\n", "\r"}

\* the trimmed non-blank entries of a tuple of strings, in their order
RECURSIVE C_NonBlank(_)
C_NonBlank(l) ==
    IF l = <<>> THEN <<>>
    ELSE IF C_Blank(Head(l).s) THEN C_NonBlank(Tail(l))
    ELSE <<Str(C_Trim(Head(l).s))>> \o C_NonBlank(Tail(l))

\* an overrides value has a title / artists that count as present
C_HasTitle(ov) == ov # None /\ ov.title # None /\ ~C_Blank(ov.title.s)
C_HasArtists(ov) == ov # None /\ ov.artists # None /\ C_NonBlank(ov.artists.l) # <<>>

-----------------------------------------------------------------------------
(* C1: caller overrides and Spotify values on the Spotify path *)

\* C1: after one pass through the Spotify path, each field of the overrides
\* handed to the media resolution is the caller's when the caller's field is
\* present and not blank, and the Spotify-derived one otherwise; and so is
\* each field of the result.
C1_SpotifyOverrides ==
    (pc = "done" /\ io.fetch = 1 /\ outcome.k = "return") =>
        /\ overrides.title = IF C_HasTitle(caller) THEN caller.title
                             ELSE Str(spotify_title)
        /\ overrides.artists = IF C_HasArtists(caller) THEN caller.artists
                               ELSE Tuple(spotify_artists)
        /\ outcome.v.title = IF C_HasTitle(caller) THEN Str(C_Trim(caller.title.s))
                             ELSE Str(spotify_title)
        /\ outcome.v.artists = IF C_HasArtists(caller) THEN C_NonBlank(caller.artists.l)
                               ELSE spotify_artists

-----------------------------------------------------------------------------
(* C2: overrides on a direct media URL *)

\* C2: on a direct media URL the result title is the trimmed override title
\* when that is non-blank and the extractor-derived title otherwise; the result
\* artists are the trimmed non-blank override entries, in order, when there is
\* one, and the extractor-derived artists otherwise, never a mixture.
C2_WholesaleOverrides ==
    (pc = "done" /\ io.fetch = 0 /\ outcome.k = "return") =>
        /\ outcome.v.title = IF C_HasTitle(caller) THEN Str(C_Trim(caller.title.s))
                             ELSE ExtractorTitle(info, full_path)
        /\ outcome.v.artists = IF C_HasArtists(caller) THEN C_NonBlank(caller.artists.l)
                               ELSE ExtractorArtists(info)

\* an override with a blank title and a blank entry among its artists acted on
\* a record that has a title and artists of its own
C2_Witness ==
    /\ pc = "done" /\ io.fetch = 0 /\ outcome.k = "return"
    /\ caller = Overrides(Str(<<" ">>),
                          Tuple(<<Str(<<"A", " ">>), Str(<<>>), Str(<<" ", "B">>)>>))
    /\ GetKey(info, "title") = Str(<<"ET">>)
    /\ GetKey(info, "artists") = List(<<Str(<<"EA1">>), Str(<<"EA2">>)>>)
    /\ outcome.v.title = Str(<<"ET">>)
    /\ outcome.v.artists = <<Str(<<"A">>), Str(<<"B">>)>>

-----------------------------------------------------------------------------
(* C3: the artists of a result are never empty *)

C_NonEmpty(v) == v \notin {Missing, None, Str(<<>>), List(<<>>)}

\* the first non-empty source in the order artists list, artist, uploader,
\* channel, and the sentinel when there is none
C3_Fallback(i) ==
    IF i.artists.t = "list" /\ i.artists.l # <<>> THEN i.artists.l
    ELSE IF C_NonEmpty(i.artist) THEN <<i.artist>>
    ELSE IF C_NonEmpty(i.uploader) THEN <<i.uploader>>
    ELSE IF C_NonEmpty(i.channel) THEN <<i.channel>>
    ELSE <<Str(<<"Unknown Artist">>)>>

\* C3: the artists of every result are non-empty: they are the override's
\* non-blank entries when it has one, and otherwise the first non-empty source
\* of the record or the sentinel.
C3_ArtistsNonEmpty ==
    (pc = "done" /\ outcome.k = "return") =>
        /\ outcome.v.artists # <<>>
        /\ ~C_HasArtists(overrides) => outcome.v.artists = C3_Fallback(info)

\* a record with no artist source at all, under an override whose artists are
\* all blank, gave the sentinel
C3_Witness ==
    /\ pc = "done" /\ outcome.k = "return"
    /\ caller # None /\ caller.artists = Tuple(<<Str(<<" ">>), Str(<<>>)>>)
    /\ \A k \in {"artists", "artist", "uploader", "channel"} : info[k] = Missing
    /\ outcome.v.artists = <<Str(<<"Unknown Artist">>)>>

-----------------------------------------------------------------------------
(* C5: a blank reference *)

\* C5: on a blank reference download raises the invalid-reference error and no
\* collaborator is ever called: no fetch, no search, no directory, no extraction.
C5_BlankReference ==
    C_Blank(reference) =>
        /\ io = NoIo
        /\ pc \in {"download", "done"}
        /\ pc = "done" => outcome = Raised("URL cannot be empty")

\* the call on a reference of whitespace only has ended
C5_Witness ==
    pc = "done" /\ reference = <<" ">> /\ outcome = Raised("URL cannot be empty")

-----------------------------------------------------------------------------
(* C7: the navigation of the Spotify payload *)

C7_Level(d, k) == IF k \in DOMAIN d /\ d[k] \notin {Missing, None} THEN d[k] ELSE EmptyDict

\* payload.props.pageProps.state.data.entity, an empty entity for a missing or
\* null level
C7_Entity(payload) ==
    C7_Level(C7_Level(C7_Level(C7_Level(C7_Level(payload, "props"), "pageProps"),
                               "state"), "data"), "entity")

C7_Incomplete(payload) ==
    EntityTitle(C7_Entity(payload)) = <<>> \/ EntityArtists(C7_Entity(payload)) = <<>>

\* C7: when the embed page answered with success and its script is a JSON
\* object, the step fails exactly when the metadata is incomplete, with the
\* incomplete-metadata error, and never with another failure.
C7_SafeNavigation ==
    (response # Unset /\ response.status = HttpOk /\ response.script # None
     /\ response.script.valid /\ IsDict(response.script.json)) =>
        IF C7_Incomplete(response.script.json)
        THEN outcome = Raised("Spotify track metadata is missing title or artists")
        ELSE outcome = Pending

-----------------------------------------------------------------------------
(* C8: the selection of the search result *)

C8_Usable(r) ==
    /\ r.t = "list" /\ r.l # <<>>
    /\ r.l[1].t = "dict" /\ "url" \in DOMAIN r.l[1]
    /\ r.l[1].url.t = "str" /\ ~C_Blank(r.l[1].url.s)

\* C8: when the search answer is no list, is empty or has a first element
\* without a usable url, whatever that element is, the call fails with the
\* no-results error and nothing is extracted; otherwise the trimmed url of the
\* first element is the URL handed to download.
C8_SearchSelection ==
    (results # Unset /\ results.valid) =>
        IF C8_Usable(results.json)
        THEN pc = "download" /\ outcome = Pending
             /\ url = C_Trim(results.json.l[1].url.s)
        ELSE pc = "done" /\ io.extract = 0
             /\ outcome = Raised("No YouTube results found for Spotify track")

-----------------------------------------------------------------------------
(* C10: one pass through the Spotify path *)

\* C10: in one top-level call the embed page is fetched at most once and the
\* search is made at most once, and the URL the search selected goes to the
\* direct branch.
C10_OnePass ==
    /\ io.fetch <= 1
    /\ io.search <= 1
    /\ (results # Unset /\ pc = "download") => Dispatch(url).branch = "direct"

-----------------------------------------------------------------------------
(* C6: capture_logs *)

\* the caller's streams are bound as at the call and have received nothing
C6_CallerUntouched ==
    /\ sys_stdout = caller_out
    /\ sys_stderr = caller_err
    /\ streams["tty_out"] = <<>>
    /\ streams["tty_err"] = <<>>

\* C6 as claimed: no exception of func ever leaves capture_logs: a raise gives
\* no result and the output followed by the trace, a return gives the value and
\* the output; the caller's streams are untouched.
C6_NeverPropagates ==
    cpc = "done" =>
        /\ cout = IF raised # "" THEN Returned(<<None, Append(written, Trace)>>)
                  ELSE Returned(<<result, written>>)
        /\ C6_CallerUntouched

\* the classes that are a BaseException and no Exception
C6_BaseOnly ==
    {"BaseException", "SystemExit", "KeyboardInterrupt", "GeneratorExit", "CancelledError"}

\* What capture_logs does guarantee: the behaviour C6 describes for every
\* exception that is an Exception; one that is only a BaseException
\* (BaseException itself, SystemExit, KeyboardInterrupt, GeneratorExit,
\* asyncio.CancelledError) leaves capture_logs; the caller's streams are
\* untouched in every case.
C6_ExceptionsCaptured ==
    cpc = "done" =>
        /\ cout = IF raised \in C6_BaseOnly THEN Raised(raised)
                  ELSE IF raised # "" THEN Returned(<<None, Append(written, Trace)>>)
                  ELSE Returned(<<result, written>>)
        /\ C6_CallerUntouched

====
